---- MODULE Spec2Model ----
(***************************************************************************)
(* ReplayGameInfo: an OBS frontend script.  On the "replay buffer saved"   *)
(* event the callback reads the recording path and the foreground window   *)
(* (title, owning executable) and starts one daemon thread per event; the  *)
(* thread creates <folder>/icons and <folder>/.clip_metadata, extracts the *)
(* executable's icon unless <icons>/<stem>.png exists, and writes          *)
(* <metadata>/<recording-basename>.gameinfo.                               *)
(*                                                                         *)
(* Text is modelled as a sequence of one-character strings, a path as a    *)
(* sequence of components (split at the separator), a Python value that    *)
(* may be None as a tagged record (None / Str(s)).  Threads interleave at  *)
(* their file-system operations.                                           *)
(***************************************************************************)
EXTENDS Integers, Sequences, FiniteSets, TLC

\* ------------------------------------------------------------------------
\* Bounds of the model
\* ------------------------------------------------------------------------
\* number of replay-saved events delivered by the host
MaxEvents == 2

\* the same, for the specification with fairness
MaxFairEvents == 1

\* ------------------------------------------------------------------------
\* The denylist, src/ReplayGameInfo.py:24-184
\* ------------------------------------------------------------------------
\* src/ReplayGameInfo.py:24-92
windowsSystemApps ==
  << <<"e", "x", "p", "l", "o", "r", "e", "r", ".", "e", "x", "e">>,
     <<"S", "y", "s", "t", "e", "m", "S", "e", "t", "t", "i", "n", "g", "s", ".", "e", "x", "e">>,
     <<"S", "e", "a", "r", "c", "h", "U", "I", ".", "e", "x", "e">>,
     <<"S", "h", "e", "l", "l", "E", "x", "p", "e", "r", "i", "e", "n", "c", "e", "H", "o", "s", "t", ".", "e", "x", "e">>,
     <<"S", "t", "a", "r", "t", "M", "e", "n", "u", "E", "x", "p", "e", "r", "i", "e", "n", "c", "e", "H", "o", "s", "t", ".", "e", "x", "e">>,
     <<"T", "a", "s", "k", "m", "g", "r", ".", "e", "x", "e">>,
     <<"S", "n", "i", "p", "p", "i", "n", "g", "T", "o", "o", "l", ".", "e", "x", "e">>,
     <<"S", "n", "i", "p", "A", "n", "d", "S", "k", "e", "t", "c", "h", ".", "e", "x", "e">>,
     <<"M", "a", "g", "n", "i", "f", "y", ".", "e", "x", "e">>,
     <<"N", "a", "r", "r", "a", "t", "o", "r", ".", "e", "x", "e">>,
     <<"o", "s", "k", ".", "e", "x", "e">>,
     <<"M", "S", "P", "a", "i", "n", "t", ".", "e", "x", "e">>,
     <<"n", "o", "t", "e", "p", "a", "d", ".", "e", "x", "e">>,
     <<"w", "i", "n", "v", "e", "r", ".", "e", "x", "e">>,
     <<"c", "a", "l", "c", ".", "e", "x", "e">>,
     <<"m", "s", "p", "a", "i", "n", "t", ".", "e", "x", "e">>,
     <<"w", "i", "n", "w", "o", "r", "d", ".", "e", "x", "e">>,
     <<"e", "x", "c", "e", "l", ".", "e", "x", "e">>,
     <<"p", "o", "w", "e", "r", "p", "n", "t", ".", "e", "x", "e">>,
     <<"O", "n", "e", "N", "o", "t", "e", ".", "e", "x", "e">>,
     <<"r", "e", "g", "e", "d", "i", "t", ".", "e", "x", "e">>,
     <<"c", "m", "d", ".", "e", "x", "e">>,
     <<"p", "o", "w", "e", "r", "s", "h", "e", "l", "l", ".", "e", "x", "e">>,
     <<"W", "i", "n", "d", "o", "w", "s", "T", "e", "r", "m", "i", "n", "a", "l", ".", "e", "x", "e">>,
     <<"w", "t", ".", "e", "x", "e">>,
     <<"c", "o", "n", "h", "o", "s", "t", ".", "e", "x", "e">>,
     <<"m", "m", "c", ".", "e", "x", "e">>,
     <<"c", "o", "n", "t", "r", "o", "l", ".", "e", "x", "e">>,
     <<"r", "u", "n", "d", "l", "l", "3", "2", ".", "e", "x", "e">>,
     <<"C", "o", "m", "p", "M", "g", "m", "t", "L", "a", "u", "n", "c", "h", "e", "r", ".", "e", "x", "e">>,
     <<"A", "p", "p", "l", "i", "c", "a", "t", "i", "o", "n", "F", "r", "a", "m", "e", "H", "o", "s", "t", ".", "e", "x", "e">>,
     <<"R", "u", "n", "t", "i", "m", "e", "B", "r", "o", "k", "e", "r", ".", "e", "x", "e">>,
     <<"t", "a", "s", "k", "s", "c", "h", "d", ".", "m", "s", "c">>,
     <<"e", "v", "e", "n", "t", "v", "w", "r", ".", "m", "s", "c">>,
     <<"p", "e", "r", "f", "m", "o", "n", ".", "e", "x", "e">>,
     <<"d", "f", "r", "g", "u", "i", ".", "e", "x", "e">>,
     <<"O", "p", "t", "i", "o", "n", "a", "l", "F", "e", "a", "t", "u", "r", "e", "s", ".", "e", "x", "e">>,
     <<"S", "y", "s", "t", "e", "m", "P", "r", "o", "p", "e", "r", "t", "i", "e", "s", "C", "o", "m", "p", "u", "t", "e", "r", "N", "a", "m", "e", ".", "e", "x", "e">>,
     <<"T", "a", "s", "k", "S", "c", "h", "d", ".", "e", "x", "e">>,
     <<"s", "c", "h", "t", "a", "s", "k", "s", ".", "e", "x", "e">>,
     <<"s", "e", "r", "v", "i", "c", "e", "s", ".", "m", "s", "c">>,
     <<"d", "e", "v", "m", "g", "m", "t", ".", "m", "s", "c">>,
     <<"d", "i", "s", "k", "m", "g", "m", "t", ".", "m", "s", "c">>,
     <<"c", "o", "m", "p", "m", "g", "m", "t", ".", "m", "s", "c">>,
     <<"g", "p", "e", "d", "i", "t", ".", "m", "s", "c">>,
     <<"s", "e", "c", "p", "o", "l", ".", "m", "s", "c">>,
     <<"M", "s", "i", "n", "f", "o", "3", "2", ".", "e", "x", "e">>,
     <<"d", "x", "d", "i", "a", "g", ".", "e", "x", "e">>,
     <<"w", "s", "c", "r", "i", "p", "t", ".", "e", "x", "e">>,
     <<"c", "s", "c", "r", "i", "p", "t", ".", "e", "x", "e">>,
     <<"m", "r", "t", ".", "e", "x", "e">>,
     <<"S", "e", "a", "r", "c", "h", "A", "p", "p", ".", "e", "x", "e">>,
     <<"L", "o", "c", "k", "A", "p", "p", ".", "e", "x", "e">>,
     <<"c", "t", "f", "m", "o", "n", ".", "e", "x", "e">>,
     <<"s", "i", "h", "o", "s", "t", ".", "e", "x", "e">>,
     <<"B", "a", "c", "k", "g", "r", "o", "u", "n", "d", "T", "a", "s", "k", "H", "o", "s", "t", ".", "e", "x", "e">>,
     <<"S", "e", "t", "t", "i", "n", "g", "S", "y", "n", "c", "H", "o", "s", "t", ".", "e", "x", "e">>,
     <<"Y", "o", "u", "r", "P", "h", "o", "n", "e", ".", "e", "x", "e">>,
     <<"P", "h", "o", "n", "e", "E", "x", "p", "e", "r", "i", "e", "n", "c", "e", "H", "o", "s", "t", ".", "e", "x", "e">>,
     <<"F", "i", "l", "e", "P", "i", "c", "k", "e", "r", "H", "o", "s", "t", ".", "e", "x", "e">>,
     <<"P", "i", "c", "k", "e", "r", "H", "o", "s", "t", ".", "e", "x", "e">>,
     <<"s", "m", "a", "r", "t", "s", "c", "r", "e", "e", "n", ".", "e", "x", "e">>,
     <<"W", "e", "r", "F", "a", "u", "l", "t", ".", "e", "x", "e">>,
     <<"c", "l", "e", "a", "n", "m", "g", "r", ".", "e", "x", "e">>,
     <<"c", "e", "r", "t", "m", "g", "r", ".", "m", "s", "c">>,
     <<"w", "f", ".", "m", "s", "c">> >>

\* src/ReplayGameInfo.py:94-105
archiveToolsAndFileManagers ==
  << <<"7", "z", "F", "M", ".", "e", "x", "e">>,
     <<"W", "i", "n", "R", "A", "R", ".", "e", "x", "e">>,
     <<"W", "i", "n", "Z", "i", "p", "3", "2", ".", "e", "x", "e">>,
     <<"P", "e", "a", "Z", "i", "p", ".", "e", "x", "e">>,
     <<"T", "o", "t", "a", "l", "C", "m", "d", ".", "e", "x", "e">>,
     <<"F", "r", "e", "e", "C", "o", "m", "m", "a", "n", "d", "e", "r", ".", "e", "x", "e">>,
     <<"Q", "-", "D", "i", "r", ".", "e", "x", "e">>,
     <<"M", "u", "l", "t", "i", "C", "o", "m", "m", "a", "n", "d", "e", "r", ".", "e", "x", "e">>,
     <<"E", "v", "e", "r", "y", "t", "h", "i", "n", "g", ".", "e", "x", "e">>,
     <<"T", "r", "e", "e", "S", "i", "z", "e", "F", "r", "e", "e", ".", "e", "x", "e">> >>

\* src/ReplayGameInfo.py:107-116
installerAndLauncherApps ==
  << <<"s", "e", "t", "u", "p", ".", "e", "x", "e">>,
     <<"u", "n", "i", "n", "s", "t", "a", "l", "l", ".", "e", "x", "e">>,
     <<"m", "s", "i", "e", "x", "e", "c", ".", "e", "x", "e">>,
     <<"d", "x", "s", "e", "t", "u", "p", ".", "e", "x", "e">>,
     <<"i", "n", "s", "t", "a", "l", "l", "s", "h", "i", "e", "l", "d", ".", "e", "x", "e">>,
     <<"b", "o", "o", "t", "s", "t", "r", "a", "p", "p", "e", "r", ".", "e", "x", "e">>,
     <<"u", "p", "d", "a", "t", "e", ".", "e", "x", "e">>,
     <<"u", "n", "i", "n", "s", "0", "0", "0", ".", "e", "x", "e">> >>

\* src/ReplayGameInfo.py:118-126
virtualizationApps ==
  << <<"v", "m", "w", "a", "r", "e", ".", "e", "x", "e">>,
     <<"v", "m", "w", "a", "r", "e", "-", "v", "m", "x", ".", "e", "x", "e">>,
     <<"V", "i", "r", "t", "u", "a", "l", "B", "o", "x", ".", "e", "x", "e">>,
     <<"v", "b", "o", "x", "h", "e", "a", "d", "l", "e", "s", "s", ".", "e", "x", "e">>,
     <<"v", "b", "o", "x", "m", "a", "n", "a", "g", "e", ".", "e", "x", "e">>,
     <<"m", "s", "t", "s", "c", ".", "e", "x", "e">>,
     <<"T", "e", "a", "m", "V", "i", "e", "w", "e", "r", ".", "e", "x", "e">> >>

\* src/ReplayGameInfo.py:128-138
antivirusAndCleanerApps ==
  << <<"A", "v", "a", "s", "t", "U", "I", ".", "e", "x", "e">>,
     <<"a", "v", "g", "u", "i", ".", "e", "x", "e">>,
     <<"m", "s", "m", "p", "e", "n", "g", ".", "e", "x", "e">>,
     <<"S", "e", "c", "u", "r", "i", "t", "y", "H", "e", "a", "l", "t", "h", "S", "y", "s", "t", "r", "a", "y", ".", "e", "x", "e">>,
     <<"M", "a", "l", "w", "a", "r", "e", "b", "y", "t", "e", "s", ".", "e", "x", "e">>,
     <<"C", "C", "l", "e", "a", "n", "e", "r", ".", "e", "x", "e">>,
     <<"A", "d", "w", "C", "l", "e", "a", "n", "e", "r", ".", "e", "x", "e">>,
     <<"N", "o", "r", "t", "o", "n", "S", "e", "c", "u", "r", "i", "t", "y", ".", "e", "x", "e">>,
     <<"M", "c", "U", "I", "C", "n", "t", ".", "e", "x", "e">> >>

\* src/ReplayGameInfo.py:140-151
debuggingAndDevTools ==
  << <<"P", "r", "o", "c", "m", "o", "n", ".", "e", "x", "e">>,
     <<"P", "r", "o", "c", "e", "s", "s", "H", "a", "c", "k", "e", "r", ".", "e", "x", "e">>,
     <<"P", "r", "o", "c", "e", "s", "s", "E", "x", "p", "l", "o", "r", "e", "r", ".", "e", "x", "e">>,
     <<"A", "u", "t", "o", "r", "u", "n", "s", ".", "e", "x", "e">>,
     <<"V", "M", "M", "a", "p", ".", "e", "x", "e">>,
     <<"w", "i", "n", "d", "b", "g", ".", "e", "x", "e">>,
     <<"O", "l", "l", "y", "D", "b", "g", ".", "e", "x", "e">>,
     <<"x", "6", "4", "d", "b", "g", ".", "e", "x", "e">>,
     <<"D", "e", "p", "e", "n", "d", "e", "n", "c", "y", "W", "a", "l", "k", "e", "r", ".", "e", "x", "e">>,
     <<"H", "x", "D", ".", "e", "x", "e">> >>

\* src/ReplayGameInfo.py:153-160
printerScannerApps ==
  << <<"F", "a", "x", "C", "o", "n", "s", "o", "l", "e", ".", "e", "x", "e">>,
     <<"P", "r", "i", "n", "t", "D", "i", "a", "l", "o", "g", ".", "e", "x", "e">>,
     <<"p", "r", "i", "n", "t", "m", "a", "n", "a", "g", "e", "m", "e", "n", "t", ".", "m", "s", "c">>,
     <<"H", "P", "S", "c", "a", "n", ".", "e", "x", "e">>,
     <<"C", "a", "n", "o", "n", "I", "J", ".", "e", "x", "e">>,
     <<"E", "p", "s", "o", "n", "S", "c", "a", "n", ".", "e", "x", "e">> >>

\* src/ReplayGameInfo.py:162-170
accessories ==
  << <<"w", "o", "r", "d", "p", "a", "d", ".", "e", "x", "e">>,
     <<"w", "r", "i", "t", "e", ".", "e", "x", "e">>,
     <<"c", "h", "a", "r", "m", "a", "p", ".", "e", "x", "e">>,
     <<"s", "t", "i", "k", "y", "n", "o", "t", ".", "e", "x", "e">>,
     <<"X", "p", "s", "R", "c", "h", "V", "w", ".", "e", "x", "e">>,
     <<"h", "h", ".", "e", "x", "e">>,
     <<"M", "o", "b", "i", "l", "i", "t", "y", "C", "e", "n", "t", "e", "r", ".", "e", "x", "e">> >>

\* src/ReplayGameInfo.py:172-181 (list concatenation)
ignoredExecutables ==
  windowsSystemApps \o archiveToolsAndFileManagers \o installerAndLauncherApps
    \o virtualizationApps \o antivirusAndCleanerApps \o debuggingAndDevTools
    \o printerScannerApps \o accessories

\* str.lower() on the characters that occur in file names
UpperCase ==
  <<"A", "B", "C", "D", "E", "F", "G", "H", "I", "J", "K", "L", "M", "N", "O", "P", "Q", "R", "S", "T", "U", "V", "W", "X", "Y", "Z">>

LowerCase ==
  <<"a", "b", "c", "d", "e", "f", "g", "h", "i", "j", "k", "l", "m", "n", "o", "p", "q", "r", "s", "t", "u", "v", "w", "x", "y", "z">>

LowerChar(c) ==
  IF \E k \in 1..26 : UpperCase[k] = c
    THEN LowerCase[CHOOSE k \in 1..26 : UpperCase[k] = c]
    ELSE c

Lower(s) ==
  [k \in 1..Len(s) |-> LowerChar(s[k])]

\* src/ReplayGameInfo.py:184
ignoredExecutables_lower ==
  { Lower(ignoredExecutables[k]) : k \in 1..Len(ignoredExecutables) }

\* ------------------------------------------------------------------------
\* Python values and os.path on component sequences
\* ------------------------------------------------------------------------
None ==
  [type |-> "NoneType"]

Str(s) ==
  [type |-> "str", value |-> s]

\* truth value of an Optional[str]: None and "" are false
Truthy(x) ==
  x.type = "str" /\ x.value # <<>>

\* x or "" (line 307)
PyOr(x, d) ==
  IF Truthy(x) THEN x ELSE d

basename(p) ==
  IF p = <<>> THEN <<>> ELSE p[Len(p)]

dirname(p) ==
  IF p = <<>> THEN <<>> ELSE SubSeq(p, 1, Len(p) - 1)

join(d, name) ==
  Append(d, name)

\* index of the last "." of a file name, 0 if none
LastDot(name) ==
  IF \E k \in 1..Len(name) : name[k] = "."
    THEN CHOOSE k \in 1..Len(name) :
           name[k] = "." /\ \A m \in (k+1)..Len(name) : name[m] # "."
    ELSE 0

\* os.path.splitext(name)[0]: cut at the last dot unless only dots precede it
splitext_root(name) ==
  IF LastDot(name) > 0 /\ \E k \in 1..(LastDot(name) - 1) : name[k] # "."
    THEN SubSeq(name, 1, LastDot(name) - 1)
    ELSE name

ICONS ==
  <<"i", "c", "o", "n", "s">>

CLIP_METADATA ==
  <<".", "c", "l", "i", "p", "_", "m", "e", "t", "a", "d", "a", "t", "a">>

PNG ==
  <<".", "p", "n", "g">>

GAMEINFO ==
  <<".", "g", "a", "m", "e", "i", "n", "f", "o">>

UNKNOWN_WINDOW ==
  <<"U", "n", "k", "n", "o", "w", "n", " ", "W", "i", "n", "d", "o", "w">>

\* ------------------------------------------------------------------------
\* The environment: the host and the desktop
\* ------------------------------------------------------------------------
\* window handles; 0 is "no foreground window"
Windows ==
  1..3

\* GetWindowTextW: window 3 has an empty title
WindowText ==
  << <<"G", "a", "m", "e">>, <<"P", "r", "o", "m", "p", "t">>, <<>> >>

\* OpenProcess + GetModuleFileNameExW: the process of window 3 cannot be
\* opened; window 2 is a denylisted executable spelled in another case
ModuleFileName ==
  << Str(<<<<"C", ":">>, <<"G", "a", "m", "e", "s">>, <<"G", "a", "m", "e", ".", "e", "x", "e">>>>),
     Str(<<<<"C", ":">>, <<"W", "i", "n", "d", "o", "w", "s">>, <<"C", "M", "D", ".", "E", "X", "E">>>>),
     None >>

\* obs_frontend_get_last_replay(): two recordings of one folder, or nothing
LastReplays ==
  { <<>>,
    <<<<"C", ":">>, <<"V", "i", "d", "e", "o", "s">>, <<"a", ".", "m", "k", "v">>>>,
    <<<<"C", ":">>, <<"V", "i", "d", "e", "o", "s">>, <<"b", ".", "m", "k", "v">>>> }

\* frontend events delivered to the callback
FrontendEvents ==
  { "OBS_FRONTEND_EVENT_REPLAY_BUFFER_SAVED", "OBS_FRONTEND_EVENT_EXIT" }

\* directories that exist before the script runs: the recordings' folders
InitialDirs ==
  { dirname(p) : p \in LastReplays \ { <<>> } }

VARIABLES
  focus,            \* handle of the foreground window, 0 if none
  threads,          \* one record per started background thread, in start order
  dirs,             \* directories that exist
  icon_files,       \* icon path -> executable the icon was extracted from
  gameinfo_files    \* .gameinfo path -> contents of the file

vars ==
  << focus, threads, dirs, icon_files, gameinfo_files >>

\* ------------------------------------------------------------------------
\* Foreground window look-up, lines 208-234
\* ------------------------------------------------------------------------
\* returns (title, hwnd); hwnd 0 stands for None
get_foreground_window_info ==
  IF focus = 0
    THEN [title |-> <<>>, hwnd |-> 0]
    ELSE [title |-> WindowText[focus], hwnd |-> focus]

\* None when the process cannot be opened or has no module file name
get_executable_from_hwnd(hwnd) ==
  ModuleFileName[hwnd]

\* ------------------------------------------------------------------------
\* handle_replay_saved, lines 279-315: the pure parts
\* ------------------------------------------------------------------------
\* variant: the base name is looked up without lower-casing it
IsIgnored_CaseSensitive(exe_path) ==
  /\ Truthy(exe_path)
  /\ \E k \in 1..Len(ignoredExecutables) :
       ignoredExecutables[k] = basename(exe_path.value)

\* lines 282-284
IsIgnored(exe_path) ==
  /\ Truthy(exe_path)
  /\ Lower(basename(exe_path.value)) \in ignoredExecutables_lower

\* lines 288-290
icons_dir(recording_path) ==
  join(dirname(recording_path), ICONS)

metadata_dir(recording_path) ==
  join(dirname(recording_path), CLIP_METADATA)

\* lines 297-298
IconFilename(exe_path) ==
  splitext_root(basename(exe_path)) \o PNG

\* line 299
icon_path(recording_path, icon_filename) ==
  join(icons_dir(recording_path), icon_filename)

\* variant: the cache test is dropped, the icon always counts as missing
os_path_isfile_never(p) ==
  FALSE

\* variant: the cache test asks for a directory of that name
os_path_isfile_isdir(p) ==
  p \in dirs

\* line 300
os_path_isfile(p) ==
  p \in DOMAIN icon_files

\* variant: the file is named after the recording's folder
gameinfo_path_folder(recording_path) ==
  join(metadata_dir(recording_path), basename(dirname(recording_path)) \o GAMEINFO)

\* variant: the recording's extension is dropped from the file name
gameinfo_path_root(recording_path) ==
  join(metadata_dir(recording_path), splitext_root(basename(recording_path)) \o GAMEINFO)

\* lines 309-310
gameinfo_path(recording_path) ==
  join(metadata_dir(recording_path), basename(recording_path) \o GAMEINFO)

\* variant: the title is read from the foreground window when the thread writes
info_now(window_title, icon_filename) ==
  [window_title |-> Str(IF focus = 0 \/ WindowText[focus] = <<>>
                          THEN UNKNOWN_WINDOW ELSE WindowText[focus]),
   icon_file |-> PyOr(icon_filename, Str(<<>>))]

\* lines 305-308
info(window_title, icon_filename) ==
  [window_title |-> Str(window_title), icon_file |-> PyOr(icon_filename, Str(<<>>))]

\* json.dump of a dict of str/None values: one member per key
json_dump(d) ==
  [k \in DOMAIN d |->
     IF d[k].type = "NoneType" THEN [json |-> "null"]
                               ELSE [json |-> "string", text |-> d[k].value]]

\* number of characters json.dump writes for a two-member document:
\* {"window_title": ..., "icon_file": ...} with each string value in quotes
json_length(doc) ==
  LET value_length(v) == IF v.json = "null" THEN 4 ELSE Len(v.text) + 2
  IN 33 + value_length(doc.window_title) + value_length(doc.icon_file)

\* a file is the text last written at its start and its size; what lies
\* beyond that text is left over from an earlier, longer write
truncated ==
  [head |-> <<>>, size |-> 0]

\* write of the whole text through a stream opened at position 0
write_at_start(file, doc) ==
  [head |-> doc,
   size |-> IF file.size > json_length(doc) THEN file.size ELSE json_length(doc)]

\* variant: os.makedirs without exist_ok
exist_ok_false ==
  FALSE

\* os.makedirs(..., exist_ok=True), lines 292-293
exist_ok ==
  TRUE

\* outcome of os.makedirs(d, exist_ok): mkdir fails when d exists, which is
\* an error only without exist_ok; fault is an injected OSError
makedirs_outcome(d, fault) ==
  IF fault THEN "OSError"
  ELSE IF d \in dirs /\ ~exist_ok THEN "FileExistsError"
  ELSE "ok"

\* variant: no except clause, the exception leaves the thread unlogged
except_Exception_reraise(t, exc) ==
  [t EXCEPT !.pc = "done", !.error = exc, !.uncaught = TRUE]

\* except Exception as exc: debug(...), lines 314-315
except_Exception(t, exc) ==
  [t EXCEPT !.pc = "done", !.error = exc,
            !.log = @ \cup {"Failed to handle replay info"}]

\* ------------------------------------------------------------------------
\* State machine
\* ------------------------------------------------------------------------
NewThread(recording_path, window_title, exe_path, hwnd) ==
  [ recording_path |-> recording_path,
    window_title   |-> window_title,
    exe_path       |-> exe_path,
    pc             |-> "start",
    icon_filename  |-> None,
    opened         |-> <<>>,
    \* history, not read by the program
    hwnd           |-> hwnd,
    icon_seen      |-> "unchecked",
    calls          |-> [makedirs |-> 0, extract_icon |-> 0, open |-> 0],
    error          |-> "",
    extract_failed |-> FALSE,
    uncaught       |-> FALSE,
    log            |-> {},
    wrote          |-> [done |-> FALSE] ]

Init ==
  /\ focus \in {0} \cup Windows
  /\ threads = <<>>
  /\ dirs = InitialDirs
  /\ icon_files = <<>>
  /\ gameinfo_files = <<>>

\* the user changes the focused window
SetForegroundWindow ==
  /\ \E h \in {0} \cup Windows : h # focus /\ focus' = h
  /\ UNCHANGED << threads, dirs, icon_files, gameinfo_files >>

\* replay_buffer_event_cb, lines 322-338, for at most limit started threads
EventCb(limit) ==
  /\ Len(threads) < limit
  /\ \E event \in FrontendEvents, recording_path \in LastReplays :
       IF event = "OBS_FRONTEND_EVENT_REPLAY_BUFFER_SAVED" /\ recording_path # <<>>
         THEN LET fg == get_foreground_window_info
                  window_title == IF fg.title = <<>> THEN UNKNOWN_WINDOW ELSE fg.title
                  exe_path == IF fg.hwnd # 0 THEN get_executable_from_hwnd(fg.hwnd) ELSE None
              IN threads' = Append(threads,
                              NewThread(recording_path, window_title, exe_path, fg.hwnd))
         ELSE UNCHANGED threads
  /\ UNCHANGED << focus, dirs, icon_files, gameinfo_files >>

\* lines 282-286: an ignored executable, the thread returns at once
Skip(i) ==
  LET t == threads[i] IN
  /\ t.pc = "start"
  /\ IsIgnored(t.exe_path)
  /\ threads' = [threads EXCEPT ![i] =
       [t EXCEPT !.pc = "done", !.log = @ \cup {"is in ignored list"}]]
  /\ UNCHANGED << focus, dirs, icon_files, gameinfo_files >>

\* one os.makedirs call of thread i for directory d, then pc becomes next
Makedirs(i, d, next) ==
  LET t == threads[i]
      c == [t EXCEPT !.calls.makedirs = @ + 1]
  IN \E fault \in BOOLEAN :
       LET outcome == makedirs_outcome(d, fault) IN
       IF outcome = "ok"
         THEN /\ dirs' = dirs \cup {d}
              /\ threads' = [threads EXCEPT ![i] =
                   [c EXCEPT !.pc = next]]
         ELSE /\ dirs' = dirs
              /\ threads' = [threads EXCEPT ![i] = except_Exception(c, outcome)]

\* lines 282-292: not ignored, so the icons directory is created if missing
MakedirsIcons(i) ==
  /\ threads[i].pc = "start"
  /\ ~IsIgnored(threads[i].exe_path)
  /\ Makedirs(i, icons_dir(threads[i].recording_path), "makedirs_metadata")
  /\ UNCHANGED << focus, icon_files, gameinfo_files >>

\* line 293
MakedirsMetadata(i) ==
  /\ threads[i].pc = "makedirs_metadata"
  /\ Makedirs(i, metadata_dir(threads[i].recording_path), "check_icon")
  /\ UNCHANGED << focus, icon_files, gameinfo_files >>

\* lines 295-302 up to the start of extract_icon
CheckIcon(i) ==
  LET t == threads[i] IN
  /\ t.pc = "check_icon"
  /\ threads' = [threads EXCEPT ![i] =
       IF Truthy(t.exe_path)
         THEN LET icon_filename == IconFilename(t.exe_path.value)
                  p == icon_path(t.recording_path, icon_filename)
                  u == [t EXCEPT !.icon_filename = Str(icon_filename),
                                 !.icon_seen = IF p \in DOMAIN icon_files
                                                 THEN "present" ELSE "absent"]
              IN IF ~os_path_isfile(p)
                   THEN [u EXCEPT !.pc = "extract_icon",
                                  !.calls.extract_icon = @ + 1,
                                  !.log = @ \cup {"Extracting icon"}]
                   ELSE [u EXCEPT !.pc = "open"]
         ELSE [t EXCEPT !.pc = "open"]]
  /\ UNCHANGED << focus, dirs, icon_files, gameinfo_files >>

\* extract_icon, lines 241-272: the PowerShell child saves the PNG, or fails
\* and the exception is logged; the caller ignores the result (line 302)
ExtractIcon(i) ==
  LET t == threads[i]
      p == icon_path(t.recording_path, t.icon_filename.value)
  IN /\ t.pc = "extract_icon"
     /\ \E ok \in BOOLEAN :
          IF ok
            THEN /\ icon_files' = (p :> t.exe_path.value) @@ icon_files
                 /\ threads' = [threads EXCEPT ![i] = [t EXCEPT !.pc = "open"]]
            ELSE /\ icon_files' = icon_files
                 /\ threads' = [threads EXCEPT ![i] =
                      [t EXCEPT !.pc = "open", !.extract_failed = TRUE,
                                !.log = @ \cup {"Icon extraction failed"}]]
     /\ UNCHANGED << focus, dirs, gameinfo_files >>

\* line 311: open(gameinfo_path, "w") creates the file or truncates it
OpenGameinfo(i) ==
  LET t == threads[i]
      c == [t EXCEPT !.calls.open = @ + 1]
      p == gameinfo_path(t.recording_path)
  IN /\ t.pc = "open"
     /\ \E fault \in BOOLEAN :
          IF ~fault /\ metadata_dir(t.recording_path) \in dirs
            THEN /\ gameinfo_files' = (p :> truncated) @@ gameinfo_files
                 /\ threads' = [threads EXCEPT ![i] =
                      [c EXCEPT !.pc = "dump", !.opened = p]]
            ELSE /\ gameinfo_files' = gameinfo_files
                 /\ threads' = [threads EXCEPT ![i] = except_Exception(c, "OSError")]
     /\ UNCHANGED << focus, dirs, icon_files >>

\* lines 304-313: json.dump fills the stream's buffer and the end of the with
\* block writes it to the file, starting at the stream's position 0
DumpGameinfo(i) ==
  LET t == threads[i]
      p == t.opened
      doc == json_dump(info(t.window_title, t.icon_filename))
  IN /\ t.pc = "dump"
     /\ gameinfo_files' = [gameinfo_files EXCEPT ![p] = write_at_start(@, doc)]
     /\ threads' = [threads EXCEPT ![i] =
          [t EXCEPT !.pc = "done",
                    !.wrote = [done |-> TRUE, path |-> p, content |-> doc],
                    !.log = @ \cup {".gameinfo saved"}]]
     /\ UNCHANGED << focus, dirs, icon_files >>

\* one step of background thread i
handle_replay_saved(i) ==
  \/ Skip(i)
  \/ MakedirsIcons(i)
  \/ MakedirsMetadata(i)
  \/ CheckIcon(i)
  \/ ExtractIcon(i)
  \/ OpenGameinfo(i)
  \/ DumpGameinfo(i)

replay_buffer_event_cb ==
  EventCb(MaxEvents)

Next ==
  \/ SetForegroundWindow
  \/ replay_buffer_event_cb
  \/ \E i \in 1..Len(threads) : handle_replay_saved(i)

Spec ==
  Init /\ [][Next]_vars

FairEventCb ==
  EventCb(MaxFairEvents)

FairNext ==
  \/ SetForegroundWindow
  \/ FairEventCb
  \/ \E i \in 1..Len(threads) : handle_replay_saved(i)

\* the threads are scheduled by the operating system: a thread that can take
\* a step eventually takes it (the PowerShell child is taken to terminate)
FairSpec ==
  /\ Init /\ [][FairNext]_vars
  /\ \A i \in 1..MaxFairEvents :
       WF_vars(i \in 1..Len(threads) /\ handle_replay_saved(i))

\* ------------------------------------------------------------------------
\* Properties
\* ------------------------------------------------------------------------
\* the denylist without regard to case
DenylistNames ==
  { Lower(ignoredExecutables[k]) : k \in 1..Len(ignoredExecutables) }

\* the denylist test as the contract states it: the base name of the
\* executable, compared without regard to case
OnDenylist(exe_path) ==
  /\ exe_path.type = "str"
  /\ Lower(exe_path.value[Len(exe_path.value)]) \in DenylistNames

\* the .gameinfo the contract promises for thread i: in .clip_metadata beside
\* the recording, named after the recording file, its text being the captured
\* title and the icon filename, with both sibling directories present
PromisedGameinfo(i) ==
  LET t == threads[i]
      folder == SubSeq(t.recording_path, 1, Len(t.recording_path) - 1)
      p == folder \o << CLIP_METADATA, t.recording_path[Len(t.recording_path)] \o GAMEINFO >>
  IN /\ folder \o << ICONS >> \in dirs
     /\ folder \o << CLIP_METADATA >> \in dirs
     /\ p \in DOMAIN gameinfo_files
     /\ gameinfo_files[p].head =
          [window_title |-> [json |-> "string", text |-> t.window_title],
           icon_file |->
             [json |-> "string",
              text |-> IF t.exe_path.type = "str"
                         THEN splitext_root(t.exe_path.value[Len(t.exe_path.value)]) \o PNG
                         ELSE <<>>]]

\* C5: every thread started for an executable that is not on the denylist (or
\* is unresolved) eventually finishes, and unless a directory or file
\* operation failed, the promised .gameinfo is then in place
C5_EventuallyGameinfo ==
  \A i \in 1..MaxFairEvents :
    (i <= Len(threads) /\ threads[i].pc = "start" /\ ~OnDenylist(threads[i].exe_path))
      ~> (/\ i <= Len(threads)
          /\ threads[i].pc = "done"
          /\ (threads[i].error # "" \/ PromisedGameinfo(i)))

\* a thread for a non-denylisted executable is done without an I/O error and
\* the promised .gameinfo is in place
C5_Witness ==
  \E i \in 1..Len(threads) :
    /\ ~OnDenylist(threads[i].exe_path)
    /\ threads[i].pc = "done"
    /\ threads[i].error = ""
    /\ PromisedGameinfo(i)

\* C1: a thread whose executable is on the denylist, in whatever case it is
\* spelled, never calls makedirs, extract_icon or open and writes nothing;
\* while every event so far was such an event, no directory, icon or
\* .gameinfo has been added to the file system
C1_DenylistedSkipped ==
  /\ \A i \in 1..Len(threads) :
       OnDenylist(threads[i].exe_path) =>
         /\ threads[i].pc \in {"start", "done"}
         /\ threads[i].calls = [makedirs |-> 0, extract_icon |-> 0, open |-> 0]
         /\ ~threads[i].wrote.done
  /\ (\A i \in 1..Len(threads) : OnDenylist(threads[i].exe_path)) =>
       /\ DOMAIN gameinfo_files = {}
       /\ DOMAIN icon_files = {}
       /\ dirs = InitialDirs

\* a denylisted executable spelled in another case than the list's entry has
\* been skipped
C1_Witness ==
  \E i \in 1..Len(threads) :
    /\ OnDenylist(threads[i].exe_path)
    /\ \A k \in 1..Len(ignoredExecutables) :
         ignoredExecutables[k] # threads[i].exe_path.value[Len(threads[i].exe_path.value)]
    /\ threads[i].pc = "done"
    /\ "is in ignored list" \in threads[i].log

\* C2: a thread that finds the icon file present when it looks never invokes
\* extract_icon (so it never rewrites the icon file); it goes on to write its
\* .gameinfo, which (unless the write fails) is written and names that icon
\* file
C2_CachedIconNotExtracted ==
  \A i \in 1..Len(threads) :
    threads[i].icon_seen = "present" =>
      /\ threads[i].calls.extract_icon = 0
      /\ threads[i].pc # "extract_icon"
      /\ "Extracting icon" \notin threads[i].log
      /\ threads[i].pc \in {"open", "dump", "done"}
      /\ (threads[i].pc = "done" /\ threads[i].error = "") => threads[i].wrote.done
      /\ threads[i].wrote.done =>
           threads[i].wrote.content.icon_file =
             [json |-> "string",
              text |-> splitext_root(threads[i].exe_path.value[Len(threads[i].exe_path.value)])
                         \o PNG]

\* a thread found the icon cached and wrote its .gameinfo, and the icon file
\* still holds what the earlier extraction saved
C2_Witness ==
  \E i \in 1..Len(threads) :
    /\ threads[i].icon_seen = "present"
    /\ threads[i].wrote.done
    /\ threads[i].wrote.path \in DOMAIN gameinfo_files
    /\ \E p \in DOMAIN icon_files : p[Len(p)] = threads[i].icon_filename.value

\* the file is one JSON object with exactly the members window_title and
\* icon_file, both strings, and nothing after it
IsGameinfoObject(file) ==
  /\ DOMAIN file.head = {"window_title", "icon_file"}
  /\ \A k \in DOMAIN file.head : file.head[k].json = "string"
  /\ file.size = json_length(file.head)

\* C3 as stated: once the threads of all events so far are done, every
\* .gameinfo on disk is a JSON object with exactly the members window_title
\* and icon_file, both strings (never null)
C3_TwoTextKeys ==
  (\A i \in 1..Len(threads) : threads[i].pc = "done") =>
    \A p \in DOMAIN gameinfo_files : IsGameinfoObject(gameinfo_files[p])

\* the failures a thread met, and those for which it logged a message
Failures(t) ==
  (IF t.hwnd # 0 /\ t.exe_path.type = "NoneType" THEN {"process lookup"} ELSE {})
    \cup (IF t.extract_failed THEN {"icon extraction"} ELSE {})
    \cup (IF t.error # "" THEN {"I/O"} ELSE {})

LoggedFailures(t) ==
  (IF "Icon extraction failed" \in t.log THEN {"icon extraction"} ELSE {})
    \cup (IF "Failed to handle replay info" \in t.log THEN {"I/O"} ELSE {})

\* no exception leaves a thread, and no step is made twice
SwallowedNoRetry(t) ==
  /\ ~t.uncaught
  /\ t.calls.makedirs <= 2
  /\ t.calls.extract_icon <= 1
  /\ t.calls.open <= 1
  /\ t.error # "" => t.pc = "done" /\ ~t.wrote.done

TitleOfWindow(h) ==
  IF h = 0 \/ WindowText[h] = <<>> THEN UNKNOWN_WINDOW ELSE WindowText[h]

ExecutableOfWindow(h) ==
  IF h = 0 THEN None ELSE ModuleFileName[h]

\* C7: a thread is started with the title and executable of the window that
\* is focused during the callback; its recording path, title and executable
\* never change afterwards, whatever is focused or saved later; and what it
\* writes is that title, at the path derived from that recording path
C7_CapturedOnNotification ==
  [][/\ Len(threads') > Len(threads) =>
          /\ threads'[Len(threads')].window_title = TitleOfWindow(focus)
          /\ threads'[Len(threads')].exe_path = ExecutableOfWindow(focus)
     /\ \A i \in 1..Len(threads) :
          /\ threads'[i].recording_path = threads[i].recording_path
          /\ threads'[i].window_title = threads[i].window_title
          /\ threads'[i].exe_path = threads[i].exe_path
          /\ (threads'[i].wrote.done /\ ~threads[i].wrote.done) =>
               /\ threads'[i].wrote.content.window_title =
                    [json |-> "string", text |-> TitleOfWindow(threads[i].hwnd)]
               /\ LET p == threads'[i].wrote.path
                      r == threads[i].recording_path
                  IN /\ SubSeq(p, 1, Len(p) - 2) = SubSeq(r, 1, Len(r) - 1)
                     /\ p[Len(p)] = r[Len(r)] \o GAMEINFO]_vars

\* thread i was started first, a later event under another focused window has
\* been handled and written for the same recording, and thread i, writing
\* last, still wrote the title captured for it although the focus has moved
C7_Witness ==
  \E i, j \in 1..Len(threads) :
    /\ i < j
    /\ threads[i].hwnd # threads[j].hwnd
    /\ threads[i].hwnd # focus
    /\ threads[i].wrote.done /\ threads[j].wrote.done
    /\ threads[i].wrote.path = threads[j].wrote.path
    /\ gameinfo_files[threads[i].wrote.path].head = threads[i].wrote.content
    /\ threads[i].wrote.content # threads[j].wrote.content
    /\ threads[i].wrote.content.window_title.text = TitleOfWindow(threads[i].hwnd)

\* C8 as stated: in a written .gameinfo, icon_file is the empty string or the
\* name of a file present in the icons directory once the thread is done; it
\* is empty when the executable is unresolved or the extraction failed
C8_IconFileExistsOrEmpty ==
  \A i \in 1..Len(threads) :
    (threads[i].pc = "done" /\ threads[i].wrote.done) =>
      LET r == threads[i].recording_path
          name == threads[i].wrote.content.icon_file.text
      IN /\ name = <<>> \/ SubSeq(r, 1, Len(r) - 1) \o << ICONS, name >> \in DOMAIN icon_files
         /\ (threads[i].exe_path.type = "NoneType" \/ threads[i].extract_failed) => name = <<>>

\* C9: no thread fails because a directory it asks for already exists, and
\* every thread that is done, not skipped and met no I/O error has written
C9_DirectoryRaceTolerated ==
  \A i \in 1..Len(threads) :
    /\ threads[i].error # "FileExistsError"
    /\ (threads[i].pc = "done" /\ ~OnDenylist(threads[i].exe_path) /\ threads[i].error = "") =>
         /\ threads[i].wrote.done
         /\ threads[i].wrote.path \in DOMAIN gameinfo_files

\* two threads for recordings of one folder both went through the two
\* makedirs calls, so one of them found each directory in place, and both
\* wrote their own .gameinfo
C9_Witness ==
  \E i, j \in 1..Len(threads) :
    /\ i # j
    /\ threads[i].recording_path # threads[j].recording_path
    /\ SubSeq(threads[i].recording_path, 1, Len(threads[i].recording_path) - 1)
         = SubSeq(threads[j].recording_path, 1, Len(threads[j].recording_path) - 1)
    /\ threads[i].calls.makedirs = 2 /\ threads[j].calls.makedirs = 2
    /\ threads[i].wrote.done /\ threads[j].wrote.done
    /\ gameinfo_files[threads[i].wrote.path].head = threads[i].wrote.content
    /\ gameinfo_files[threads[j].wrote.path].head = threads[j].wrote.content

\* the icon file a thread in extract_icon is writing
ExtractTarget(t) ==
  SubSeq(t.recording_path, 1, Len(t.recording_path) - 1) \o << ICONS, t.icon_filename.value >>

\* C10 as stated: two extractions writing the same icon file are never in
\* progress at once
C10_AtMostOneExtraction ==
  \A i, j \in 1..Len(threads) :
    (i # j /\ threads[i].pc = "extract_icon" /\ threads[j].pc = "extract_icon") =>
      ExtractTarget(threads[i]) # ExtractTarget(threads[j])

\* C10 amended: a thread invokes extract_icon at most once, and only at a
\* moment when the icon file does not exist; threads that look before the
\* first extraction has saved the file may extract side by side
C10_ExtractOnlyWhileMissing ==
  [][\A i \in 1..Len(threads) :
       /\ threads'[i].calls.extract_icon <= 1
       /\ (threads[i].pc # "extract_icon" /\ threads'[i].pc = "extract_icon") =>
            ExtractTarget(threads'[i]) \notin DOMAIN icon_files]_vars

\* two threads are extracting the same icon file side by side
C10_Witness ==
  \E i, j \in 1..Len(threads) :
    /\ i # j
    /\ threads[i].pc = "extract_icon" /\ threads[j].pc = "extract_icon"
    /\ ExtractTarget(threads[i]) = ExtractTarget(threads[j])
    /\ ExtractTarget(threads[i]) \notin DOMAIN icon_files

====
